---------------------------- MODULE Spec2Model ----------------------------
(***************************************************************************)
(* Frame-rate up-conversion utilities (src/util.cpp): the median           *)
(* neighbour predictor medianNeighbor, the block cost calcSAD and the      *)
(* two-peak phase correlation phaseCorr, each as a state machine.          *)
(*                                                                         *)
(* Pixel intensities and motion-vector coordinates are floats in the       *)
(* code; the model draws them from small sets of integers, on which every  *)
(* operation the code applies to them (compare, add, subtract, abs) is     *)
(* exact.                                                                  *)
(***************************************************************************)
EXTENDS Integers, Sequences, FiniteSets, TLC

(***************************************************************************)
(* Bounds of the model.                                                    *)
(***************************************************************************)
\* the block grid of the motion field has 1..MaxGridRows rows
MaxGridRows == 2
\* and 1..MaxGridCols columns
MaxGridCols == 2
\* calcSAD is called with |dx|, |dy| <= MaxShift2 / 2 pixels, in half-pixel steps
MaxShift2 == 1
\* phaseCorr's second patch is the first moved by 0..MaxTranslate pixels
MaxTranslate == 1

VARIABLES
    fn,          \* which function of util.cpp this behaviour exercises
    pc,          \* position inside that function / its caller
    \* ---- medianNeighbor and the raster fill that calls it
    gridRows,    \* prevBlockMV.size()
    gridCols,    \* prevBlockMV[r].size()
    prevBlockMV, \* the motion field, [row -> [col -> Point2f]]
    filled,      \* grid positions the raster fill has stored so far
    rowpos,      \* current block row
    colpos,      \* current block column
    reads,       \* the three <<row, col>> entries medianNeighbor indexed
    neighborMV,  \* the three vectors it copied from them
    median,      \* the Point2f it returned
    \* ---- calcSAD
    prevBlock,   \* the reference block, a Mat
    curr,        \* the target frame, a Mat
    dx,          \* float dx, held as the integer 2*dx (half-pixel steps)
    dy,          \* float dy, held as the integer 2*dy
    SAD,         \* the accumulator, then the value returned
    currReads,   \* the <<row, col>> samples of curr that were read
    \* ---- phaseCorr
    src1,        \* first patch, a Mat
    src2,        \* second patch, a Mat
    window,      \* weighting window, a Mat (0 x 0 when not supplied)
    response,    \* double *response: whether it points at a double, and its value
    C,           \* the correlation surface, a Mat
    peakLoc,     \* the Point minMaxLoc wrote last
    peaks,       \* the peak locations found so far, in order
    t1,          \* accumulators of the first weighted centroid
    t2,          \* accumulators of the second weighted centroid
    shifts       \* the vector<Point2f> returned

medianVars == <<gridRows, gridCols, prevBlockMV, filled, rowpos, colpos,
                reads, neighborMV, median>>

sadVars == <<prevBlock, curr, dx, dy, SAD, currReads>>

phaseVars == <<src1, src2, window, response, C, peakLoc, peaks, t1, t2, shifts>>

vars == <<fn, pc, medianVars, sadVars, phaseVars>>

(***************************************************************************)
(* Point2f                                                                 *)
(***************************************************************************)
Point2f(px, py) == [x |-> px, y |-> py]

\* Candidate vectors the block search may store besides the prediction.
CandidateMVs ==
    {Point2f(2, 2), Point2f(4, 4), Point2f(-2, 4)}

\* Every vector a field entry can hold: a candidate or a prediction.
FieldMVs ==
    CandidateMVs \cup {Point2f(a, b) : a \in {0, 2, 4}, b \in {0, 2, 4}}

Min2(a, b) == IF a <= b THEN a ELSE b
Max2(a, b) == IF a >= b THEN a ELSE b

(***************************************************************************)
(* medianNeighbor, util.cpp:152-203                                        *)
(***************************************************************************)
\* a slip in the last case: the right neighbour in place of the left one
SelectNeighbors_InteriorRight(r, c) ==
    IF r - 1 < 0 /\ c - 1 < 0
    THEN <<(<<r, c + 1>>), (<<r + 1, c>>), (<<r + 1, c + 1>>)>>
    ELSE IF c - 1 < 0
    THEN <<(<<r - 1, c>>), (<<r - 1, c + 1>>), (<<r, c + 1>>)>>
    ELSE IF r - 1 < 0
    THEN <<(<<r, c - 1>>), (<<r + 1, c - 1>>), (<<r + 1, c>>)>>
    ELSE <<(<<r - 1, c - 1>>), (<<r - 1, c>>), (<<r, c + 1>>)>>

\* a slip in the order of the tests: the top edge falls into the last case
SelectNeighbors_NoTopEdge(r, c) ==
    IF r - 1 < 0 /\ c - 1 < 0
    THEN <<(<<r, c + 1>>), (<<r + 1, c>>), (<<r + 1, c + 1>>)>>
    ELSE IF c - 1 < 0
    THEN <<(<<r - 1, c>>), (<<r - 1, c + 1>>), (<<r, c + 1>>)>>
    ELSE <<(<<r - 1, c - 1>>), (<<r - 1, c>>), (<<r, c - 1>>)>>

\* util.cpp:160-187: the three entries indexed, in the order of neighborMV[0..2]
SelectNeighbors(r, c) ==
    IF r - 1 < 0 /\ c - 1 < 0
    THEN <<(<<r, c + 1>>), (<<r + 1, c>>), (<<r + 1, c + 1>>)>>
    ELSE IF c - 1 < 0
    THEN <<(<<r - 1, c>>), (<<r - 1, c + 1>>), (<<r, c + 1>>)>>
    ELSE IF r - 1 < 0
    THEN <<(<<r, c - 1>>), (<<r + 1, c - 1>>), (<<r + 1, c>>)>>
    ELSE <<(<<r - 1, c - 1>>), (<<r - 1, c>>), (<<r, c - 1>>)>>

\* whether prevBlockMV[p[1]][p[2]] is an element of the field
InGrid(p) ==
    /\ 0 <= p[1] /\ p[1] < gridRows
    /\ 0 <= p[2] /\ p[2] < gridCols

\* the coordinate lists created empty
InitialCoords_Empty == <<>>

\* util.cpp:156-157: vector<float> x_coord(3, 0.0), y_coord(3, 0.0)
InitialCoords == <<0, 0, 0>>

\* std::nth_element(first, first + n, last) followed by *(first + n): the
\* value that stands at 0-based index n once the sequence is sorted, i.e. the
\* v with (number of elements < v) <= n < (number of elements <= v).
NthElement(s, n) ==
    CHOOSE v \in {s[i] : i \in 1..Len(s)} :
        /\ Cardinality({i \in 1..Len(s) : s[i] < v}) <= n
        /\ n < Cardinality({i \in 1..Len(s) : s[i] <= v})

\* util.cpp:189-201: push the three coordinates after the initial entries and
\* take the element at index size()/2
MedianOfCoords(a, b, c) ==
    LET coord == InitialCoords \o <<a, b, c>>
    IN  NthElement(coord, Len(coord) \div 2)

\* util.cpp:188-202
MedianPoint(nb) ==
    Point2f(MedianOfCoords(nb[1].x, nb[2].x, nb[3].x),
            MedianOfCoords(nb[1].y, nb[2].y, nb[3].y))

InitMedian ==
    /\ fn = "medianNeighbor"
    /\ pc = "predict"
    /\ gridRows \in 1..MaxGridRows
    /\ gridCols \in 1..MaxGridCols
    /\ prevBlockMV = [r \in 0..(gridRows - 1) |->
                         [c \in 0..(gridCols - 1) |-> Point2f(0, 0)]]
    /\ filled = {}
    /\ rowpos = 0
    /\ colpos = 0
    /\ reads = <<>>
    /\ neighborMV = <<>>
    /\ median = Point2f(0, 0)
    /\ prevBlock = <<>> /\ curr = <<>> /\ dx = 0 /\ dy = 0
    /\ SAD = 0 /\ currReads = {}
    /\ src1 = <<>> /\ src2 = <<>> /\ window = <<>> /\ response = <<>>
    /\ C = <<>> /\ peakLoc = <<>> /\ peaks = <<>> /\ t1 = <<>> /\ t2 = <<>>
    /\ shifts = <<>>

\* medianNeighbor(rowpos, colpos, prevBlockMV), util.cpp:152-203.  An index
\* outside the field is undefined behaviour: the call either faults or
\* copies an arbitrary vector.
MedianNeighbor ==
    /\ fn = "medianNeighbor"
    /\ pc = "predict"
    /\ LET sel == SelectNeighbors(rowpos, colpos)
           Read(i) == IF InGrid(sel[i])
                      THEN {prevBlockMV[sel[i][1]][sel[i][2]]}
                      ELSE FieldMVs
       IN  /\ reads' = sel
           /\ \/ /\ \E n0 \in Read(1), n1 \in Read(2), n2 \in Read(3) :
                       /\ neighborMV' = <<n0, n1, n2>>
                       /\ median' = MedianPoint(<<n0, n1, n2>>)
                 /\ pc' = "store"
              \/ /\ \E i \in 1..3 : ~InGrid(sel[i])
                 /\ pc' = "fault"
                 /\ UNCHANGED <<neighborMV, median>>
    /\ UNCHANGED <<fn, gridRows, gridCols, prevBlockMV, filled, rowpos, colpos>>
    /\ UNCHANGED <<sadVars, phaseVars>>

\* The block motion estimator's raster scan: store the selected vector at
\* (rowpos, colpos) and move to the next position in row-major order.
StoreVector ==
    /\ fn = "medianNeighbor"
    /\ pc = "store"
    /\ \E v \in CandidateMVs \cup {median} :
          prevBlockMV' = [prevBlockMV EXCEPT ![rowpos][colpos] = v]
    /\ filled' = filled \cup {<<rowpos, colpos>>}
    /\ IF colpos + 1 < gridCols
       THEN /\ colpos' = colpos + 1
            /\ rowpos' = rowpos
            /\ pc' = "predict"
       ELSE IF rowpos + 1 < gridRows
       THEN /\ colpos' = 0
            /\ rowpos' = rowpos + 1
            /\ pc' = "predict"
       ELSE /\ pc' = "done"
            /\ UNCHANGED <<rowpos, colpos>>
    /\ UNCHANGED <<fn, gridRows, gridCols, reads, neighborMV, median>>
    /\ UNCHANGED <<sadVars, phaseVars>>

NextMedian ==
    \/ MedianNeighbor
    \/ StoreVector

SpecMedian == InitMedian /\ [][NextMedian]_vars


(***************************************************************************)
(* Properties of medianNeighbor                                            *)
(***************************************************************************)
Min3(a, b, c) == Min2(a, Min2(b, c))
Max3(a, b, c) == Max2(a, Max2(b, c))
\* the median of three numbers
Median3(a, b, c) == a + b + c - Min3(a, b, c) - Max3(a, b, c)

Returned == fn = "medianNeighbor" /\ pc = "store"
Indexed == fn = "medianNeighbor" /\ pc \in {"store", "fault"}
Interior == rowpos > 0 /\ colpos > 0

\* C1: the vector medianNeighbor returns is the per-coordinate median of the
\* three neighbour vectors it selected (x the median of the three x-values, y
\* the median of the three y-values); neighbours (0,0),(2,2),(4,4) give (2,2).
\* Stated for the calls whose three entries all exist.
C1_PerCoordinateMedian ==
    (Returned /\ \A i \in 1..3 : InGrid(reads[i])) =>
        /\ median.x = Median3(neighborMV[1].x, neighborMV[2].x, neighborMV[3].x)
        /\ median.y = Median3(neighborMV[1].y, neighborMV[2].y, neighborMV[3].y)

\* C2 as stated: in the raster fill every field entry the predictor read at
\* (rowpos, colpos) was stored earlier in the scan (checked on the calls whose
\* three entries all exist).
C2_AllReadsFilled ==
    (Returned /\ \A i \in 1..3 : InGrid(reads[i])) =>
        \A i \in 1..3 : reads[i] \in filled

\* C2 amended: at every position with rowpos > 0 and colpos > 0 every field
\* entry the predictor read was stored earlier in the raster scan; at a
\* position in the first row or the first column one of the entries it read
\* (to the right or below) was not stored yet.
C2_InteriorReadsFilled ==
    Returned =>
        /\ Interior => \A i \in 1..3 : reads[i] \in filled
        /\ ~Interior => \E i \in 1..3 : reads[i] \notin filled

C2_Witness ==
    /\ Returned /\ Interior
    /\ \A i \in 1..3 : reads[i] \in filled
    /\ <<rowpos, colpos>> \notin filled

\* C3: for every grid with at least one row and one column and every position
\* in it, the three entries medianNeighbor indexes lie inside the grid.
C3_ReadsInsideGrid ==
    Indexed => \A i \in 1..3 : InGrid(reads[i])

Right(r, c)      == <<r, c + 1>>
Left(r, c)       == <<r, c - 1>>
Above(r, c)      == <<r - 1, c>>
Below(r, c)      == <<r + 1, c>>
AboveLeft(r, c)  == <<r - 1, c - 1>>
AboveRight(r, c) == <<r - 1, c + 1>>
BelowLeft(r, c)  == <<r + 1, c - 1>>
BelowRight(r, c) == <<r + 1, c + 1>>

\* the documented case table
CaseTable(r, c) ==
    CASE r = 0 /\ c = 0 -> {Right(r, c), Below(r, c), BelowRight(r, c)}
      [] c = 0 /\ r > 0 -> {Above(r, c), AboveRight(r, c), Right(r, c)}
      [] r = 0 /\ c > 0 -> {Left(r, c), BelowLeft(r, c), Below(r, c)}
      [] OTHER          -> {AboveLeft(r, c), Above(r, c), Left(r, c)}

\* C4: the entries medianNeighbor indexes are exactly the three of the case
\* table for the position's class (corner, left edge, top edge, other), and
\* no other entry.
C4_CaseTable ==
    Indexed =>
        /\ Len(reads) = 3
        /\ {reads[i] : i \in 1..3} = CaseTable(rowpos, colpos)

C4_Witness ==
    /\ Returned
    /\ rowpos = 0 /\ colpos > 0
    /\ {reads[i] : i \in 1..3} = {<<0, colpos - 1>>, <<1, colpos - 1>>, <<1, colpos>>}

Mats(nrows, ncols, values) ==
    [rows : {nrows}, cols : {ncols},
     data : [0..(nrows - 1) -> [0..(ncols - 1) -> values]]]

\* m.at<float>(i, j)
At(m, i, j) == m.data[i][j]

Abs(a) == IF a < 0 THEN -a ELSE a

(***************************************************************************)
(* calcSAD, util.cpp:129-150                                               *)
(***************************************************************************)
\* BLOCK_SIZE of constants.hpp, scaled down
BLOCK_SIZE == 2

\* intensities of the reference block and of the target frame
BlockPixels == {0, 1}
FramePixels == {0, 1}

\* <<rows, cols>> of the target frames
FrameSizes == {<<2, 3>>, <<3, 2>>}

\* the floats dx, dy as integers 2*dx, 2*dy
Shifts == (-MaxShift2)..MaxShift2

\* (int)d: truncation toward zero in place of round
RoundToInt_Truncate(d2) ==
    IF d2 >= 0 THEN d2 \div 2 ELSE -((-d2) \div 2)

\* (int)round(d) for the float d = d2 / 2: halfway cases away from zero
RoundToInt(d2) ==
    IF d2 >= 0 THEN (d2 + 1) \div 2 ELSE -((-d2 + 1) \div 2)

\* util.cpp:143: the sample (row, col) is outside the target frame
OutsideFrame(frame, row, col) ==
    row < 0 \/ row >= frame.rows \/ col < 0 \/ col >= frame.cols

\* an out-of-frame pixel adds nothing
PixelTerm_NoPenalty(block, frame, i, j, row, col) ==
    IF OutsideFrame(frame, row, col)
    THEN 0
    ELSE Abs(At(block, i, j) - At(frame, row, col))

\* util.cpp:143-146: what one pixel (i, j) adds to SAD
PixelTerm(block, frame, i, j, row, col) ==
    IF OutsideFrame(frame, row, col)
    THEN At(block, i, j)
    ELSE Abs(At(block, i, j) - At(frame, row, col))

\* util.cpp:134-149: the two nested loops, pixel k = i * cols + j after pixel
\* k - 1; yields the accumulator and the samples of the frame that were read
CalcSADLoop(block, rp, cp, frame, fdx, fdy) ==
    LET y == rp * BLOCK_SIZE
        x == cp * BLOCK_SIZE
        dx_int == RoundToInt(fdx)
        dy_int == RoundToInt(fdy)
        n == block.rows * block.cols
        acc[k \in 0..n] ==
            IF k = 0
            THEN [SAD |-> 0, reads |-> {}]
            ELSE LET i == (k - 1) \div block.cols
                     j == (k - 1) % block.cols
                     row == i + y + dy_int
                     col == j + x + dx_int
                     before == acc[k - 1]
                 IN  [SAD   |-> before.SAD
                                  + PixelTerm(block, frame, i, j, row, col),
                      reads |-> IF OutsideFrame(frame, row, col)
                                THEN before.reads
                                ELSE before.reads \cup {<<row, col>>}]
    IN  acc[n]

\* the value calcSAD(prevBlock, rowpos, colpos, curr, dx, dy) returns
CalcSADValue(block, rp, cp, frame, fdx, fdy) ==
    CalcSADLoop(block, rp, cp, frame, fdx, fdy).SAD

\* block positions of a frame: ceil(rows / BLOCK_SIZE) x ceil(cols / BLOCK_SIZE)
BlockRows(frame) == (frame.rows + BLOCK_SIZE - 1) \div BLOCK_SIZE
BlockCols(frame) == (frame.cols + BLOCK_SIZE - 1) \div BLOCK_SIZE

InitSAD ==
    /\ fn = "calcSAD"
    /\ pc = "call"
    /\ prevBlock \in Mats(BLOCK_SIZE, BLOCK_SIZE, BlockPixels)
    /\ \E size \in FrameSizes : curr \in Mats(size[1], size[2], FramePixels)
    /\ rowpos \in 0..(BlockRows(curr) - 1)
    /\ colpos \in 0..(BlockCols(curr) - 1)
    /\ dx \in Shifts
    /\ dy \in Shifts
    /\ SAD = 0
    /\ currReads = {}
    /\ gridRows = 0 /\ gridCols = 0 /\ prevBlockMV = <<>> /\ filled = {}
    /\ reads = <<>> /\ neighborMV = <<>> /\ median = Point2f(0, 0)
    /\ src1 = <<>> /\ src2 = <<>> /\ window = <<>> /\ response = <<>>
    /\ C = <<>> /\ peakLoc = <<>> /\ peaks = <<>> /\ t1 = <<>> /\ t2 = <<>>
    /\ shifts = <<>>

\* calcSAD(prevBlock, rowpos, colpos, curr, dx, dy), util.cpp:129-150
CalcSAD ==
    /\ fn = "calcSAD"
    /\ pc = "call"
    /\ LET r == CalcSADLoop(prevBlock, rowpos, colpos, curr, dx, dy)
       IN  /\ SAD' = r.SAD
           /\ currReads' = r.reads
    /\ pc' = "returned"
    /\ UNCHANGED <<fn, prevBlock, curr, dx, dy>>
    /\ UNCHANGED <<medianVars, phaseVars>>

NextSAD == CalcSAD

SpecSAD == InitSAD /\ [][NextSAD]_vars


(***************************************************************************)
(* Properties of calcSAD                                                   *)
(***************************************************************************)
SADReturned == fn = "calcSAD" /\ pc = "returned"

\* the pixels (i, j) of the reference block
BlockPixelsOf(block) == (0..(block.rows - 1)) \X (0..(block.cols - 1))

\* the integer nearest to d2 / 2, the one farther from zero when two are
\* equally near
NearestInt(d2) ==
    CHOOSE n \in (-Abs(d2))..Abs(d2) :
        /\ Abs(2 * n - d2) <= 1
        /\ \A m \in (-Abs(d2))..Abs(d2) :
              Abs(2 * m - d2) <= 1 => Abs(m) <= Abs(n)

\* the target coordinate of block pixel p under the displacement that rounds
\* to (idx, idy)
Target(p, idx, idy) ==
    <<p[1] + rowpos * BLOCK_SIZE + idy, p[2] + colpos * BLOCK_SIZE + idx>>

InFrame(t) ==
    /\ 0 <= t[1] /\ t[1] < curr.rows
    /\ 0 <= t[2] /\ t[2] < curr.cols

\* the block pixels that such a displacement maps outside the frame
OutSet(idx, idy) ==
    {p \in BlockPixelsOf(prevBlock) : ~InFrame(Target(p, idx, idy))}

RECURSIVE SumOver(_, _)
\* the sum of term[p] over the pixels p of S
SumOver(S, term) ==
    IF S = {} THEN 0
    ELSE LET p == CHOOSE q \in S : TRUE
         IN  term[p] + SumOver(S \ {p}, term)

\* C5 as stated: with the reference block, the position and the frame fixed
\* (all intensities non-negative), a displacement whose out-of-frame pixel set
\* contains that of another displacement costs at least as much.
C5_MonotoneInOutSet ==
    SADReturned =>
        LET out2 == OutSet(NearestInt(dx), NearestInt(dy))
        IN  \A dx1 \in Shifts, dy1 \in Shifts :
                OutSet(NearestInt(dx1), NearestInt(dy1)) \subseteq out2 =>
                    SAD >= CalcSADValue(prevBlock, rowpos, colpos, curr, dx1, dy1)

\* every pixel both displacements keep inside the frame is compared with equal
\* target samples, and every pixel only the second maps outside has under the
\* first a target sample of at most twice its own intensity
SameInsideSmallLost(idx1, idy1, idx2, idy2) ==
    \A p \in BlockPixelsOf(prevBlock) :
        LET ta == Target(p, idx1, idy1)
            tb == Target(p, idx2, idy2)
        IN  /\ (InFrame(ta) /\ InFrame(tb)) =>
                  At(curr, ta[1], ta[2]) = At(curr, tb[1], tb[2])
            /\ (InFrame(ta) /\ ~InFrame(tb)) =>
                  At(curr, ta[1], ta[2]) <= 2 * At(prevBlock, p[1], p[2])

\* C5 amended: the cost does not decrease when the out-of-frame pixel set
\* grows, provided the pixels inside the frame under both displacements meet
\* equal target samples and each pixel newly outside had a target sample of
\* at most twice its own intensity.
C5_MonotoneWhenComparable ==
    SADReturned =>
        LET idx2 == NearestInt(dx)
            idy2 == NearestInt(dy)
            out2 == OutSet(idx2, idy2)
        IN  \A dx1 \in Shifts, dy1 \in Shifts :
                LET idx1 == NearestInt(dx1)
                    idy1 == NearestInt(dy1)
                IN  (/\ OutSet(idx1, idy1) \subseteq out2
                     /\ SameInsideSmallLost(idx1, idy1, idx2, idy2)) =>
                        SAD >= CalcSADValue(prevBlock, rowpos, colpos, curr, dx1, dy1)

C5_Witness ==
    /\ SADReturned
    /\ LET idx2 == NearestInt(dx)
           idy2 == NearestInt(dy)
           out2 == OutSet(idx2, idy2)
       IN  /\ out2 # BlockPixelsOf(prevBlock)
           /\ \E dx1 \in Shifts, dy1 \in Shifts :
                 LET idx1 == NearestInt(dx1)
                     idy1 == NearestInt(dy1)
                 IN  /\ OutSet(idx1, idy1) \subseteq out2
                     /\ OutSet(idx1, idy1) # out2
                     /\ SameInsideSmallLost(idx1, idy1, idx2, idy2)
                     /\ \E p \in out2 \ OutSet(idx1, idy1) :
                           At(curr, Target(p, idx1, idy1)[1],
                                    Target(p, idx1, idy1)[2]) > 0
                     /\ SAD > CalcSADValue(prevBlock, rowpos, colpos, curr, dx1, dy1)

\* C6: calcSAD returns the sum over the block's pixels (i, j) of: the pixel's
\* own value when (i + rowpos*BLOCK_SIZE + round(dy), j + colpos*BLOCK_SIZE +
\* round(dx)) is outside the frame, else the absolute difference with the
\* frame's sample there; and it reads no sample outside the frame.
C6_SumOfTerms ==
    SADReturned =>
        LET idx == NearestInt(dx)
            idy == NearestInt(dy)
            term == [p \in BlockPixelsOf(prevBlock) |->
                        LET t == Target(p, idx, idy)
                        IN  IF InFrame(t)
                            THEN Abs(At(prevBlock, p[1], p[2]) - At(curr, t[1], t[2]))
                            ELSE At(prevBlock, p[1], p[2])]
        IN  /\ SAD = SumOver(BlockPixelsOf(prevBlock), term)
            /\ \A t \in currReads : InFrame(t)
            /\ currReads = {Target(p, idx, idy) :
                               p \in BlockPixelsOf(prevBlock) \ OutSet(idx, idy)}

C6_Witness ==
    /\ SADReturned
    /\ dx % 2 = 1 /\ dy < 0
    /\ colpos > 0
    /\ OutSet(NearestInt(dx), NearestInt(dy)) # {}
    /\ currReads # {}
    /\ SAD > 0


(***************************************************************************)
(* phaseCorr, util.cpp:44-127                                              *)
(*                                                                         *)
(* The transform is computed exactly: the patch sizes are those whose      *)
(* roots of unity are 1, -i, -1, i, and the second patch is a circular     *)
(* translation of the first, so that every coefficient of the normalised   *)
(* cross-power spectrum is 0 or one of these four.                         *)
(***************************************************************************)
\* <<rows, cols>> of the patches
PatchSizes == {<<1, 2>>, <<1, 4>>, <<2, 1>>, <<2, 2>>, <<2, 4>>}

\* intensities of the patches
PatchPixels == {0, 1}

\* an empty Mat: no window supplied
EmptyMat == [rows |-> 0, cols |-> 0, data |-> <<>>]

\* Mat::empty()
Empty(m) == m.rows = 0 \/ m.cols = 0

\* a window of ones
Ones(nrows, ncols) ==
    [rows |-> nrows, cols |-> ncols,
     data |-> [r \in 0..(nrows - 1) |-> [c \in 0..(ncols - 1) |-> 1]]]

\* the patch m moved down by ty and right by tx pixels, wrapping around
Translate(m, ty, tx) ==
    [rows |-> m.rows, cols |-> m.cols,
     data |-> [r \in 0..(m.rows - 1) |-> [c \in 0..(m.cols - 1) |->
                  At(m, (r + m.rows - ty) % m.rows, (c + m.cols - tx) % m.cols)]]]

\* cv::Point
Point(px, py) == [x |-> px, y |-> py]

\* complex numbers with integer parts
Complex(a, b) == [re |-> a, im |-> b]
CAdd(a, b) == Complex(a.re + b.re, a.im + b.im)
CMul(a, b) == Complex(a.re * b.re - a.im * b.im, a.re * b.im + a.im * b.re)
CConj(a) == Complex(a.re, -a.im)

\* exp(-2 pi i q / 4)
Root4(q) ==
    CASE q % 4 = 0 -> Complex(1, 0)
      [] q % 4 = 1 -> Complex(0, -1)
      [] q % 4 = 2 -> Complex(-1, 0)
      [] q % 4 = 3 -> Complex(0, 1)

\* sizes cv::getOptimalDFTSize returns (products of 2, 3 and 5), up to 8
OptimalDFTSizes == {1, 2, 3, 4, 5, 6, 8}

\* cv::getOptimalDFTSize(n): the least such size >= n
GetOptimalDFTSize(n) ==
    CHOOSE m \in OptimalDFTSizes :
        m >= n /\ \A k \in OptimalDFTSizes : k >= n => m <= k

\* cv::copyMakeBorder(m, dst, 0, M - m.rows, 0, N - m.cols, BORDER_CONSTANT, 0)
CopyMakeBorder(m, M, N) ==
    [rows |-> M, cols |-> N,
     data |-> [r \in 0..(M - 1) |-> [c \in 0..(N - 1) |->
                  IF r < m.rows /\ c < m.cols THEN At(m, r, c) ELSE 0]]]

\* util.cpp:61-81: the patch (or window) m at the optimal transform size M x N
\* of the first patch a
Pad(m, a, M, N) ==
    IF M # a.rows \/ N # a.cols
    THEN IF Empty(m) THEN m ELSE CopyMakeBorder(m, M, N)
    ELSE m

\* cv::multiply(a, b, dst): the elementwise product
Multiply(a, b) ==
    [rows |-> b.rows, cols |-> b.cols,
     data |-> [r \in 0..(b.rows - 1) |-> [c \in 0..(b.cols - 1) |->
                  At(a, r, c) * At(b, r, c)]]]

\* the exponent q of the root exp(-2 pi i q / 4) = exp(-2 pi i u r / M)
Turn(M, u, r) == ((4 \div M) * u * r) % 4

\* cv::dft(m, dst, DFT_REAL_OUTPUT): the forward transform, unscaled
Dft(m) ==
    [u \in 0..(m.rows - 1) |-> [v \in 0..(m.cols - 1) |->
        LET n == m.rows * m.cols
            acc[k \in 0..n] ==
                IF k = 0 THEN Complex(0, 0)
                ELSE LET r == (k - 1) \div m.cols
                         c == (k - 1) % m.cols
                         w == Root4(Turn(m.rows, u, r) + Turn(m.cols, v, c))
                     IN  CAdd(acc[k - 1], CMul(Complex(At(m, r, c), 0), w))
        IN  acc[n]]]

\* mulSpectrums(a, b, dst, 0, true): a times the conjugate of b
MulSpectrums(a, b, M, N) ==
    [u \in 0..(M - 1) |-> [v \in 0..(N - 1) |-> CMul(a[u][v], CConj(b[u][v]))]]

Sign(a) == IF a > 0 THEN 1 ELSE IF a < 0 THEN -1 ELSE 0

\* magSpectrums then divSpectrums: each coefficient over its own magnitude,
\* 0 where the magnitude is 0 (the divisor is magnitude^2 + epsilon)
DivByMagnitude(P, M, N) ==
    [u \in 0..(M - 1) |-> [v \in 0..(N - 1) |->
        Complex(Sign(P[u][v].re), Sign(P[u][v].im))]]

\* cv::idft(C, C): the inverse transform, unscaled, real output
Idft(F, M, N) ==
    [rows |-> M, cols |-> N,
     data |-> [r \in 0..(M - 1) |-> [c \in 0..(N - 1) |->
        LET n == M * N
            acc[k \in 0..n] ==
                IF k = 0 THEN Complex(0, 0)
                ELSE LET u == (k - 1) \div N
                         v == (k - 1) % N
                         w == CConj(Root4(Turn(M, u, r) + Turn(N, v, c)))
                     IN  CAdd(acc[k - 1], CMul(F[u][v], w))
        IN  acc[n].re]]]

\* fftShift(C): the zero-lag sample moves to (rows / 2, cols / 2)
FftShift(m) ==
    [rows |-> m.rows, cols |-> m.cols,
     data |-> [r \in 0..(m.rows - 1) |-> [c \in 0..(m.cols - 1) |->
                  At(m, (r + m.rows - (m.rows \div 2)) % m.rows,
                        (c + m.cols - (m.cols \div 2)) % m.cols)]]]

\* util.cpp:61-91: the patch m padded and, if a window is supplied, weighted
Prepared(m, a, win) ==
    LET M == GetOptimalDFTSize(a.rows)
        N == GetOptimalDFTSize(a.cols)
        paddedWin == Pad(win, a, M, N)
    IN  IF Empty(paddedWin) THEN Pad(m, a, M, N)
        ELSE Multiply(paddedWin, Pad(m, a, M, N))

\* util.cpp:61-105: the shifted correlation surface of the two patches
Surface(a, b, win) ==
    LET padded1 == Prepared(a, a, win)
        padded2 == Prepared(b, a, win)
        M == padded1.rows
        N == padded1.cols
        P == MulSpectrums(Dft(padded1), Dft(padded2), M, N)
    IN  FftShift(Idft(DivByMagnitude(P, M, N), M, N))

\* minMaxLoc(C, NULL, NULL, NULL, &peakLoc): the first maximum in row-major order
MinMaxLoc(m) ==
    LET cells == (0..(m.rows - 1)) \X (0..(m.cols - 1))
        Before(p, q) == p[1] < q[1] \/ (p[1] = q[1] /\ p[2] < q[2])
        best == CHOOSE p \in cells :
                    \A q \in cells :
                        /\ At(m, q[1], q[2]) <= At(m, p[1], p[2])
                        /\ At(m, q[1], q[2]) = At(m, p[1], p[2]) =>
                              (p = q \/ Before(p, q))
    IN  Point(best[2], best[1])

\* weightedCentroid(C, peakLoc, Size(5, 5), response): the sums of x * value,
\* y * value and value over the window clamped to the surface; the centroid is
\* (sx, sy) / (sum + DBL_EPSILON) and *response = sum
WeightedCentroid(m, peak) ==
    LET minr == Max2(peak.y - 2, 0)
        maxr == Min2(peak.y + 2, m.rows - 1)
        minc == Max2(peak.x - 2, 0)
        maxc == Min2(peak.x + 2, m.cols - 1)
        w == maxc - minc + 1
        n == (maxr - minr + 1) * w
        acc[k \in 0..n] ==
            IF k = 0 THEN [sx |-> 0, sy |-> 0, sum |-> 0]
            ELSE LET y == minr + ((k - 1) \div w)
                     x == minc + ((k - 1) % w)
                     before == acc[k - 1]
                 IN  [sx  |-> before.sx + x * At(m, y, x),
                      sy  |-> before.sy + y * At(m, y, x),
                      sum |-> before.sum + At(m, y, x)]
    IN  acc[n]

\* util.cpp:115: C.at<float>(peakLoc) = 0
ZeroAt(m, peak) ==
    [m EXCEPT !.data[peak.y][peak.x] = 0]

\* the centre taken as ((cols - 1) / 2.0, (rows - 1) / 2.0)
Center2_LastIndex(m) == Point(m.cols - 1, m.rows - 1)

\* util.cpp:124: twice the centre (padded.cols / 2.0, padded.rows / 2.0)
Center2(m) == Point(m.cols, m.rows)

\* util.cpp:126: center - t for the centroid with accumulators t, as the
\* fractions xn / d and yn / d; d = 0 stands for the divisor DBL_EPSILON
CenterMinus(center2, t) ==
    [xn |-> center2.x * t.sum - 2 * t.sx,
     yn |-> center2.y * t.sum - 2 * t.sy,
     d  |-> 2 * t.sum]

\* the double *response holding num / den
Score(num, den) == [ptr |-> TRUE, num |-> num, den |-> den]

\* double *response = 0: no score is wanted
NullResponse == [ptr |-> FALSE, num |-> 0, den |-> 1]

InitPhase ==
    /\ fn = "phaseCorr"
    /\ pc = "correlate"
    /\ \E size \in PatchSizes :
          /\ src1 \in Mats(size[1], size[2], PatchPixels)
          /\ \E ty \in 0..Min2(MaxTranslate, size[1] - 1),
                tx \in 0..Min2(MaxTranslate, size[2] - 1) :
                src2 = Translate(src1, ty, tx)
          /\ window \in {EmptyMat, Ones(size[1], size[2])}
    /\ response \in {NullResponse, Score(0, 1)}
    /\ C = <<>> /\ peakLoc = <<>> /\ peaks = <<>> /\ t1 = <<>> /\ t2 = <<>>
    /\ shifts = <<>>
    /\ gridRows = 0 /\ gridCols = 0 /\ prevBlockMV = <<>> /\ filled = {}
    /\ rowpos = 0 /\ colpos = 0
    /\ reads = <<>> /\ neighborMV = <<>> /\ median = Point2f(0, 0)
    /\ prevBlock = <<>> /\ curr = <<>> /\ dx = 0 /\ dy = 0
    /\ SAD = 0 /\ currReads = {}

\* util.cpp:47-105
Correlate ==
    /\ fn = "phaseCorr"
    /\ pc = "correlate"
    /\ C' = Surface(src1, src2, window)
    /\ pc' = "locate1"
    /\ UNCHANGED <<fn, src1, src2, window, response, peakLoc, peaks, t1, t2, shifts>>
    /\ UNCHANGED <<medianVars, sadVars>>

\* util.cpp:110 and util.cpp:116
LocatePeak ==
    /\ fn = "phaseCorr"
    /\ pc \in {"locate1", "locate2"}
    /\ peakLoc' = MinMaxLoc(C)
    /\ peaks' = Append(peaks, peakLoc')
    /\ pc' = IF pc = "locate1" THEN "centroid1" ELSE "centroid2"
    /\ UNCHANGED <<fn, src1, src2, window, response, C, t1, t2, shifts>>
    /\ UNCHANGED <<medianVars, sadVars>>

\* util.cpp:114-115
FirstCentroid ==
    /\ fn = "phaseCorr"
    /\ pc = "centroid1"
    /\ t1' = WeightedCentroid(C, peakLoc)
    /\ response' = IF ~response.ptr THEN response ELSE Score(t1'.sum, 1)
    /\ C' = ZeroAt(C, peakLoc)
    /\ pc' = "locate2"
    /\ UNCHANGED <<fn, src1, src2, window, peakLoc, peaks, t2, shifts>>
    /\ UNCHANGED <<medianVars, sadVars>>

\* util.cpp:117
SecondCentroid ==
    /\ fn = "phaseCorr"
    /\ pc = "centroid2"
    /\ t2' = WeightedCentroid(C, peakLoc)
    /\ response' = IF ~response.ptr THEN response ELSE Score(t2'.sum, 1)
    /\ pc' = "return"
    /\ UNCHANGED <<fn, src1, src2, window, C, peakLoc, peaks, t1, shifts>>
    /\ UNCHANGED <<medianVars, sadVars>>

\* util.cpp:119-126
Return ==
    /\ fn = "phaseCorr"
    /\ pc = "return"
    /\ response' = IF ~response.ptr THEN response
                   ELSE Score(response.num, response.den * (C.rows * C.cols))
    /\ shifts' = <<CenterMinus(Center2(C), t1), CenterMinus(Center2(C), t2)>>
    /\ pc' = "done"
    /\ UNCHANGED <<fn, src1, src2, window, C, peakLoc, peaks, t1, t2>>
    /\ UNCHANGED <<medianVars, sadVars>>

NextPhase ==
    \/ Correlate
    \/ LocatePeak
    \/ FirstCentroid
    \/ SecondCentroid
    \/ Return

SpecPhase == InitPhase /\ [][NextPhase]_vars


(***************************************************************************)
(* Properties of phaseCorr                                                 *)
(***************************************************************************)
PhaseDone == fn = "phaseCorr" /\ pc = "done"

\* C7: phaseCorr yields a score for each candidate, the value accumulated at
\* its peak over rows x cols of the padded size, and after the call the caller
\* (who passed a pointer) holds the primary candidate's score.
C7_PrimaryScoreReturned ==
    (PhaseDone /\ response.ptr) =>
        response.num * (C.rows * C.cols) = t1.sum * response.den

\* the primary peak is the sample at (cols / 2, rows / 2), its weighted
\* centroid is that point, and the primary displacement is (0, 0)
PrimaryAtCentre ==
    /\ 2 * peaks[1].x = C.cols /\ 2 * peaks[1].y = C.rows
    /\ t1.sum # 0
    /\ 2 * t1.sx = C.cols * t1.sum /\ 2 * t1.sy = C.rows * t1.sum
    /\ shifts[1].d # 0 /\ shifts[1].xn = 0 /\ shifts[1].yn = 0

\* C8 as stated: for identical patches of any accepted size the primary peak
\* is at the centre (cols / 2, rows / 2) of the padded size, its 5x5 weighted
\* centroid equals the centre and the primary displacement is (0, 0).
C8_IdenticalPatchesZeroShift ==
    (PhaseDone /\ src1 = src2) => PrimaryAtCentre

\* no coefficient of the transform of the prepared first patch is zero
NoZeroCoefficient ==
    LET F == Dft(Prepared(src1, src1, window))
    IN  \A u \in DOMAIN F : \A v \in DOMAIN F[u] : F[u][v] # Complex(0, 0)

\* C8 amended: for identical patches whose padded size is even in both
\* dimensions and whose transform has no zero coefficient, the primary peak is
\* at (cols / 2, rows / 2), its 5x5 weighted centroid equals that point and the
\* primary displacement is (0, 0).
C8_IdenticalRegularPatchesZeroShift ==
    (/\ PhaseDone /\ src1 = src2
     /\ C.rows % 2 = 0 /\ C.cols % 2 = 0
     /\ NoZeroCoefficient) => PrimaryAtCentre

C8_Witness ==
    /\ PhaseDone /\ src1 = src2
    /\ C.rows = 2 /\ C.cols = 4
    /\ NoZeroCoefficient
    /\ \E p \in (0..1) \X (0..3), q \in (0..1) \X (0..3) :
          p # q /\ At(src1, p[1], p[2]) = 1 /\ At(src1, q[1], q[2]) = 1
    /\ PrimaryAtCentre
    /\ peaks[1] = Point(2, 1)

\* C9: the location the second maximum search finds, after the sample at the
\* primary peak is set to 0, is never the primary peak location, whatever the
\* surface.
C9_SecondPeakElsewhere ==
    (fn = "phaseCorr" /\ Len(peaks) = 2) => peaks[2] # peaks[1]

=============================================================================
